---- MODULE Spec2Model ----
(***************************************************************************)
(* A model of conflict-vetter.py: the batch script that loads three HotCRP *)
(* exports, filters the stated conflicts, writes uidmap.csv and mails (or  *)
(* prints) one message per reviewer.                                       *)
(*                                                                         *)
(* Python strings are sequences of one-character strings, so that split,   *)
(* lower, slicing and sorted are computed as Python computes them.  None   *)
(* is what csv.DictReader stores for a field a short row does not have.    *)
(***************************************************************************)
EXTENDS Integers, Sequences, FiniteSets, TLC

\* ------------------------------------------------------------------------
\* Bound of the model: the number of data rows confname-pcconflicts.csv
\* may hold.
MaxConflictRows == 2

\* ------------------------------------------------------------------------
\* Values
\* None, as a value that compares with the strings of the model (no Python
\* string of the model holds the character "None").
None == << "None" >>

\* A map with no key: an empty dict, and the value of `row` before any read.
EmptyMap == [x \in {} |-> None]

NoRow == EmptyMap

\* Code points of the characters the model uses (Python compares strings by
\* code point; str.lower maps A-Z to a-z).
Ord(ch) ==
    CASE ch = " " -> 32 [] ch = "$" -> 36 [] ch = "'" -> 39 [] ch = "." -> 46
      [] ch = "1" -> 49 [] ch = "2" -> 50 [] ch = "<" -> 60 [] ch = ">" -> 62
      [] ch = "@" -> 64 [] ch = "A" -> 65 [] ch = "B" -> 66 [] ch = "Z" -> 90
      [] ch = "a" -> 97 [] ch = "b" -> 98 [] ch = "c" -> 99 [] ch = "d" -> 100
      [] ch = "e" -> 101 [] ch = "g" -> 103 [] ch = "h" -> 104 [] ch = "i" -> 105
      [] ch = "k" -> 107 [] ch = "l" -> 108 [] ch = "m" -> 109 [] ch = "n" -> 110
      [] ch = "o" -> 111 [] ch = "t" -> 116 [] ch = "u" -> 117 [] ch = "y" -> 121
      [] OTHER -> 120

LowerChar(ch) ==
    CASE ch = "A" -> "a" [] ch = "B" -> "b" [] ch = "Z" -> "z" [] OTHER -> ch

\* str.lower()
Lower(str) == [i \in 1..Len(str) |-> LowerChar(str[i])]

\* a < b on Python strings
StrLess(a, b) ==
    \E i \in 1..(Len(a) + 1) :
        /\ i <= Len(b)
        /\ \A j \in 1..(i - 1) : a[j] = b[j]
        /\ (i = Len(a) + 1 \/ Ord(a[i]) < Ord(b[i]))

\* str.split(sep) for a one-character separator: the list of the pieces
RECURSIVE Split(_, _)
Split(str, sep) ==
    IF \A i \in 1..Len(str) : str[i] # sep
    THEN << str >>
    ELSE LET p == CHOOSE i \in 1..Len(str) :
                      str[i] = sep /\ \A j \in 1..(i - 1) : str[j] # sep
         IN  << SubSeq(str, 1, p - 1) >> \o Split(SubSeq(str, p + 1, Len(str)), sep)

\* str[:-1]
DropLast(str) == SubSeq(str, 1, Len(str) - 1)

\* str[9:21]
Slice9to21(str) == SubSeq(str, 10, IF Len(str) < 21 THEN Len(str) ELSE 21)

\* A sort in descending order
RECURSIVE Sorted_Descending(_)
Sorted_Descending(S) ==
    IF S = {} THEN << >>
    ELSE LET m == CHOOSE x \in S : \A y \in S \ {x} : StrLess(y, x)
         IN  << m >> \o Sorted_Descending(S \ {m})

\* sorted(keys): the strings of a set in ascending order
RECURSIVE Sorted(_)
Sorted(S) ==
    IF S = {} THEN << >>
    ELSE LET m == CHOOSE x \in S : \A y \in S \ {x} : StrLess(x, y)
         IN  << m >> \o Sorted(S \ {m})

\* The orders in which a list can be laid out from the same elements
\* (list(set(...)) and random.shuffle both yield some permutation).
Range(sq) == {sq[i] : i \in 1..Len(sq)}

PermsOfSet(S) ==
    {sq \in [1..Cardinality(S) -> S] : Range(sq) = S}

PermsOfSeq(sq) ==
    {[i \in 1..Len(sq) |-> sq[p[i]]] : p \in PermsOfSet(1..Len(sq))}

\* ------------------------------------------------------------------------
\* String literals of the program
KeptTypes ==
    { << "P","i","n","n","e","d"," ","c","o","n","f","l","i","c","t" >>,
      << "P","e","r","s","o","n","a","l" >>,
      << "O","t","h","e","r" >> }

PinnedConflict == << "P","i","n","n","e","d"," ","c","o","n","f","l","i","c","t" >>

AutoDetected ==
    << "A","u","t","o","-","d","e","t","e","c","t","e","d"," ","c","o","n",
       "f","l","i","c","t"," ","(","p","r","o","b","a","b","l","y"," ","i",
       "n","s","t","i","t","u","t","i","o","n","a","l",")" >>

WebmailDomains ==
    { << "o","u","t","l","o","o","k",".","c","o","m" >>,
      << "y","a","h","o","o",".","c","o","m" >>,
      << "g","m","a","i","l",".","c","o","m" >> }

UidmapHeader == << "e","m","a","i","l",",","p","a","p","e","r",",","u","i","d","\n" >>

PcinfoColumns == {"email", "first", "last"}

AuthorsColumns == {"paper", "first", "last", "email"}

ConflictsColumns == {"email", "paper", "conflicttype"}

\* ------------------------------------------------------------------------
\* The inputs the model draws from
Personal == << "P","e","r","s","o","n","a","l" >>

AuthorType == << "A","u","t","h","o","r" >>

Gmail == << "g","m","a","i","l",".","c","o","m" >>

UEdu == << "u",".","e","d","u" >>

RevA == << "a","@" >> \o UEdu

RevB == << "B","@" >> \o Gmail

RevNoAt == << "x" >>

Paper1 == << "1" >>

Paper2 == << "2" >>

\* args.hashcode
hashcode == << "h","k" >>

OtherHashcode == << "k","h" >>

\* Rows of confname-pcinfo.csv: PcA differs from RevA in case only, PcB
\* equals RevB, the other two are short rows.
PcA == [email |-> << "A","@" >> \o UEdu, first |-> << "A" >>, last |-> << "Z" >>]

PcB == [email |-> RevB, first |-> << "B" >>, last |-> << "Z" >>]

PcShort == [email |-> None, first |-> None, last |-> None]

PcNoLast == [email |-> RevB, first |-> << "B" >>, last |-> None]

\* The data rows confname-pcinfo.csv may hold
PcinfoFiles ==
    { << >>, << PcA >>, << PcA, PcB >>, << PcShort >>, << PcA, PcNoLast >> }

\* Rows of confname-authors.csv: an author at RevA's domain and one with a
\* malformed address on paper 1, an author at RevB's domain on paper 2, and
\* a short row.
AuUniv ==
    [paper |-> Paper1, first |-> << "c" >>, last |-> << "Z" >>,
     email |-> << "c","@" >> \o UEdu]

AuMalformed ==
    [paper |-> Paper1, first |-> << "d" >>, last |-> << "Z" >>, email |-> << "d" >>]

AuGmail ==
    [paper |-> Paper2, first |-> << "e" >>, last |-> << "Z" >>,
     email |-> << "e","@" >> \o Gmail]

AuShort ==
    [paper |-> Paper1, first |-> << "c" >>, last |-> << "Z" >>, email |-> None]

\* The data rows confname-authors.csv may hold
AuthorsFiles ==
    { << >>, << AuGmail >>, << AuUniv, AuGmail >>,
      << AuUniv, AuMalformed, AuGmail >>, << AuUniv, AuUniv, AuGmail >>,
      << AuUniv, AuShort >> }

\* Rows of confname-pcconflicts.csv: kept and dropped types for both
\* reviewers, a row without a type, a row without a paper, and two rows
\* whose email has no domain.
ConflictsRows ==
    { [email |-> RevA, paper |-> Paper1, conflicttype |-> Personal],
      [email |-> RevA, paper |-> Paper2, conflicttype |-> PinnedConflict],
      [email |-> RevB, paper |-> Paper2, conflicttype |-> Personal],
      [email |-> RevB, paper |-> Paper1, conflicttype |-> PinnedConflict],
      [email |-> RevA, paper |-> Paper1, conflicttype |-> AuthorType],
      [email |-> RevB, paper |-> Paper2, conflicttype |-> AuthorType],
      [email |-> RevA, paper |-> Paper2, conflicttype |-> None],
      [email |-> RevB, paper |-> None, conflicttype |-> Personal],
      [email |-> RevNoAt, paper |-> Paper1, conflicttype |-> Personal],
      [email |-> None, paper |-> Paper1, conflicttype |-> Personal] }

\* The data rows confname-pcconflicts.csv may hold
ConflictsFiles == UNION {[1..n -> ConflictsRows] : n \in 0..MaxConflictRows}

\* The exports the model draws from: each of the given contents under a
\* header with all the columns, and the contents of one data row under a
\* header that lacks one column.
Exports(cols, files) ==
    {[fieldnames |-> cols, rows |-> f] : f \in files} \cup
    {[fieldnames |-> cols \ {x}, rows |-> f] :
        x \in cols, f \in {g \in files : Len(g) = 1}}

\* A row as DictReader yields it under a header
RowUnder(r, hdr) == [x \in hdr |-> r[x]]

\* csv.DictReader over a file with the given header and data rows
DictReader(hdr, rows) == [i \in 1..Len(rows) |-> RowUnder(rows[i], hdr)]

\* ------------------------------------------------------------------------
\* bcrypt
Base64 ==
    << ".","/","A","B","C","D","E","F","G","H","I","J","K","L","M","N","O","P",
       "Q","R","S","T","U","V","W","X","Y","Z","a","b","c","d","e","f","g","h",
       "i","j","k","l","m","n","o","p","q","r","s","t","u","v","w","x","y","z",
       "0","1","2","3","4","5","6","7","8","9" >>

SaltPrefix == << "$","2","b","$","1","2","$" >>

\* bcrypt.gensalt(): "$2b$12$" and 22 random characters
Gensalt ==
    { SaltPrefix \o [i \in 1..22 |-> ch] : ch \in {"A", "B"} }

RECURSIVE Mix(_, _, _)
Mix(str, i, acc) ==
    IF i > Len(str) THEN acc ELSE Mix(str, i + 1, (acc * 131 + Ord(str[i])) % 1000003)

\* The 31 digest characters: a function of the password and the salt
Digest(password, slt) ==
    LET h == Mix(password \o slt, 1, 7)
    IN  [i \in 1..31 |->
            Base64[(((IF i % 4 = 1 THEN h
                      ELSE IF i % 4 = 2 THEN h \div 64
                      ELSE IF i % 4 = 3 THEN h \div 4096
                      ELSE h \div 262144) + i) % 64) + 1]]

\* bcrypt.hashpw(password, salt): the salt followed by the digest
Hashpw(password, slt) == slt \o Digest(password, slt)

\* str(uid) of a bytes value: b'...'
StrOfBytes(bytes) == << "b", "'" >> \o bytes \o << "'" >>

\* reduced_uid = str(uid)[9:21]
ReducedUid(uid) == Slice9to21(StrOfBytes(uid))

\* ------------------------------------------------------------------------
\* The state of a run
VARIABLES
    reallySendMail,  \* line 64-67: set once from --really-send
    pc,              \* the statement the run is at
    err,             \* the exception that ended the run, or "none"
    header,          \* reader.fieldnames of the file being read
    row,             \* the loop variable `row`
    csvfile,         \* the rows the open reader has still to yield
    pcinfoFile,      \* confname-pcinfo.csv: [fieldnames, rows]
    names,           \* lowercase email -> "first last"
    allAuthors,      \* paper -> list of "first last <email>"
    authorsFile,     \* confname-authors.csv: [fieldnames, rows]
    authorsList,     \* line 131: the emails of all authors
    conflictsFile,   \* confname-pcconflicts.csv: [fieldnames, rows]
    conflicts,       \* email -> list of [paper, alist]
    conflict_types,  \* email -> paper -> conflicttype
    uidmap,          \* uidmap.csv: [state, lines]
    server,          \* the SMTP session: "none", "loggedin", "quit"
    sleeps,          \* number of time.sleep(1) calls
    s,               \* sorted(conflicts.keys())
    count,           \* recipients finished
    recipient,       \* the loop variable `recipient`
    c,               \* conflicts[recipient]
    ind,             \* the next line number of the message
    msg,             \* the message being composed
    sent,            \* server.sendmail calls, in order
    printed,         \* print(text_msg) calls, in order
    key,             \* the last key hashed
    salt,            \* the last bcrypt.gensalt()
    reduced_uid      \* the last token

vars ==
    << reallySendMail, pc, err, header, row, csvfile, pcinfoFile, names, allAuthors,
       authorsFile, authorsList, conflictsFile, conflicts, conflict_types,
       uidmap, server,
       sleeps, s, count, recipient, c, ind, msg, sent, printed, key, salt,
       reduced_uid >>

loadVars ==
    << pcinfoFile, names, allAuthors, authorsFile, authorsList, conflictsFile,
       conflicts, conflict_types >>

outVars == << uidmap, server, sleeps, sent, printed >>

loopVars == << s, count, recipient, c, ind, msg, key, salt, reduced_uid >>

NoMsg == [subject |-> None, lines |-> << >>]

Init ==
    /\ reallySendMail \in BOOLEAN
    /\ pc = "open_pcinfo"
    /\ err = "none"
    /\ header = {}
    /\ row = NoRow
    /\ csvfile = << >>
    /\ pcinfoFile = [fieldnames |-> {}, rows |-> << >>]
    /\ names = EmptyMap
    /\ allAuthors = EmptyMap
    /\ authorsFile = [fieldnames |-> {}, rows |-> << >>]
    /\ authorsList = << >>
    /\ conflictsFile = [fieldnames |-> {}, rows |-> << >>]
    /\ conflicts = EmptyMap
    /\ conflict_types = EmptyMap
    /\ uidmap = [state |-> "unopened", lines |-> << >>]
    /\ server = "none"
    /\ sleeps = 0
    /\ s = << >>
    /\ count = 0
    /\ recipient = None
    /\ c = << >>
    /\ ind = 1
    /\ msg = NoMsg
    /\ sent = << >>
    /\ printed = << >>
    /\ key = None
    /\ salt = None
    /\ reduced_uid = None

\* dict[k] = v
Put(m, k, v) == (k :> v) @@ m

\* defaultdict(list)[k]
GetList(m, k) == IF k \in DOMAIN m THEN m[k] ELSE << >>

\* An exception no handler catches ends the run where it is raised.
Raise(e) == err' = e

\* ------------------------------------------------------------------------
\* Lines 74-80: names
\* The key of line 78 without .lower()
NamesKey_Raw(email) == email

\* line 78
NamesKey(email) == Lower(email)

NamesValue(r) == r["first"] \o << " " >> \o r["last"]

\* What the body of the loop at line 77 does with a row
PcinfoOutcome(r) ==
    IF ~(PcinfoColumns \subseteq DOMAIN r) THEN "KeyError"
    ELSE IF r["email"] = None THEN "AttributeError"
    ELSE IF r["first"] = None \/ r["last"] = None THEN "TypeError"
    ELSE "ok"

OpenPcinfo ==
    /\ pc = "open_pcinfo" /\ err = "none"
    /\ \/ /\ Raise("OSError")
          /\ UNCHANGED << pc, header, csvfile, pcinfoFile >>
       \/ /\ \E f \in Exports(PcinfoColumns, PcinfoFiles) :
                /\ header' = f.fieldnames
                /\ pcinfoFile' = f
                /\ csvfile' = DictReader(f.fieldnames, f.rows)
          /\ pc' = "read_pcinfo"
          /\ UNCHANGED err
    /\ UNCHANGED << reallySendMail, row, names, allAuthors, authorsFile,
                    authorsList, conflictsFile, conflicts, conflict_types, outVars, loopVars >>

ReadPcinfoRow ==
    /\ pc = "read_pcinfo" /\ err = "none" /\ csvfile # << >>
    /\ LET rw == Head(csvfile) IN
        /\ row' = rw
        /\ csvfile' = Tail(csvfile)
        /\ IF PcinfoOutcome(rw) = "ok"
           THEN /\ names' = Put(names, NamesKey(rw["email"]), NamesValue(rw))
                /\ UNCHANGED err
           ELSE /\ Raise(PcinfoOutcome(rw))
                /\ UNCHANGED names
    /\ UNCHANGED << reallySendMail, pc, header, pcinfoFile, allAuthors,
                    authorsFile, authorsList, conflictsFile, conflicts, conflict_types,
                    outVars, loopVars >>

EndPcinfo ==
    /\ pc = "read_pcinfo" /\ err = "none" /\ csvfile = << >>
    /\ pc' = "open_authors"
    /\ UNCHANGED << reallySendMail, err, header, row, csvfile, loadVars,
                    outVars, loopVars >>

\* ------------------------------------------------------------------------
\* Lines 86-93: allAuthors
AuthorValue(r) ==
    r["first"] \o << " " >> \o r["last"] \o << " ", "<" >> \o r["email"] \o << ">" >>

AuthorsOutcome(r) ==
    IF ~(AuthorsColumns \subseteq DOMAIN r) THEN "KeyError"
    ELSE IF r["first"] = None \/ r["last"] = None \/ r["email"] = None
         THEN "TypeError"
    ELSE "ok"

OpenAuthors ==
    /\ pc = "open_authors" /\ err = "none"
    /\ \/ /\ Raise("OSError")
          /\ UNCHANGED << pc, header, csvfile, authorsFile >>
       \/ /\ \E f \in Exports(AuthorsColumns, AuthorsFiles) :
                /\ header' = f.fieldnames
                /\ authorsFile' = f
                /\ csvfile' = DictReader(f.fieldnames, f.rows)
          /\ pc' = "read_authors"
          /\ UNCHANGED err
    /\ UNCHANGED << reallySendMail, row, pcinfoFile, names, allAuthors,
                    authorsList, conflictsFile, conflicts, conflict_types, outVars, loopVars >>

ReadAuthorsRow ==
    /\ pc = "read_authors" /\ err = "none" /\ csvfile # << >>
    /\ LET rw == Head(csvfile) IN
        /\ row' = rw
        /\ csvfile' = Tail(csvfile)
        /\ IF AuthorsOutcome(rw) = "ok"
           THEN /\ allAuthors' = Put(allAuthors, rw["paper"],
                       Append(GetList(allAuthors, rw["paper"]), AuthorValue(rw)))
                /\ UNCHANGED err
           ELSE /\ Raise(AuthorsOutcome(rw))
                /\ UNCHANGED allAuthors
    /\ UNCHANGED << reallySendMail, pc, header, pcinfoFile, names, authorsFile,
                    authorsList, conflictsFile, conflicts, conflict_types, outVars, loopVars >>

EndAuthors ==
    /\ pc = "read_authors" /\ err = "none" /\ csvfile = << >>
    /\ pc' = "open_conflicts"
    /\ UNCHANGED << reallySendMail, err, header, row, csvfile, loadVars,
                    outVars, loopVars >>

\* ------------------------------------------------------------------------
\* Lines 100-122: conflicts and conflict_types

\* row["email"].split("@")[1]
RecipientDomain(email) == Split(email, "@")[2]

\* name.split("<")[1].split("@")[1][:-1] raises IndexError
AuthorDomainRaises(name) ==
    \/ Len(Split(name, "<")) < 2
    \/ Len(Split(Split(name, "<")[2], "@")) < 2

\* name.split("<")[1].split("@")[1][:-1]
AuthorDomain(name) == DropLast(Split(Split(name, "<")[2], "@")[2])

\* A filter that keeps every type
KeepType_Any(conflicttype) == TRUE

\* line 109
KeepType(conflicttype) == conflicttype \in KeptTypes

\* An allow-list without gmail.com
IsWebmail_NoGmail(domain) == domain \in WebmailDomains \ {Gmail}

\* line 111
IsWebmail(domain) == domain \in WebmailDomains

\* Lines 114-120: TRUE when the `continue` of line 118 is reached.  The
\* list(map(...)) is built whole before the membership test, and the bare
\* except catches an IndexError raised for any element of alist.
InstitutionalMatch(domain, alist) ==
    IF \E i \in 1..Len(alist) : AuthorDomainRaises(alist[i])
    THEN FALSE
    ELSE \E i \in 1..Len(alist) : AuthorDomain(alist[i]) = domain

\* What the body of the loop at line 105 does with a row
ConflictsOutcome(r, alist) ==
    IF "paper" \notin DOMAIN r \/ "email" \notin DOMAIN r THEN "KeyError"
    ELSE IF r["email"] = None THEN "AttributeError"
    ELSE IF Len(Split(r["email"], "@")) < 2 THEN "IndexError"
    ELSE IF "conflicttype" \notin DOMAIN r THEN "KeyError"
    ELSE IF ~KeepType(r["conflicttype"]) THEN "continue"
    ELSE IF IsWebmail(RecipientDomain(r["email"])) THEN "append"
    ELSE IF InstitutionalMatch(RecipientDomain(r["email"]), alist) THEN "continue"
    ELSE "append"

OpenConflicts ==
    /\ pc = "open_conflicts" /\ err = "none"
    /\ \/ /\ Raise("OSError")
          /\ UNCHANGED << pc, header, csvfile, conflictsFile >>
       \/ /\ \E f \in Exports(ConflictsColumns, ConflictsFiles) :
                /\ header' = f.fieldnames
                /\ conflictsFile' = f
                /\ csvfile' = DictReader(f.fieldnames, f.rows)
          /\ pc' = "read_conflicts"
          /\ UNCHANGED err
    /\ UNCHANGED << reallySendMail, row, pcinfoFile, names, allAuthors, authorsFile,
                    authorsList, conflicts, conflict_types, outVars, loopVars >>

ReadConflictsRow ==
    /\ pc = "read_conflicts" /\ err = "none" /\ csvfile # << >>
    /\ LET rw == Head(csvfile)
            paperAuthors == IF "paper" \in DOMAIN rw
                            THEN GetList(allAuthors, rw["paper"]) ELSE << >>
        IN
        \* line 106: list(set(...)) keeps one of each author, in some order
        \E alist \in PermsOfSet(Range(paperAuthors)) :
        LET out == ConflictsOutcome(rw, alist) IN
        /\ row' = rw
        /\ csvfile' = Tail(csvfile)
        \* allAuthors is a defaultdict: the lookup of line 106 adds the key
        /\ allAuthors' = IF "paper" \in DOMAIN rw
                         THEN Put(allAuthors, rw["paper"], paperAuthors)
                         ELSE allAuthors
        /\ IF out = "append"
           THEN /\ conflicts' = Put(conflicts, rw["email"],
                       Append(GetList(conflicts, rw["email"]),
                              [paper |-> rw["paper"], alist |-> alist]))
                /\ conflict_types' = Put(conflict_types, rw["email"],
                       Put(IF rw["email"] \in DOMAIN conflict_types
                           THEN conflict_types[rw["email"]] ELSE EmptyMap,
                           rw["paper"], rw["conflicttype"]))
                /\ UNCHANGED err
           ELSE /\ UNCHANGED << conflicts, conflict_types >>
                /\ IF out = "continue" THEN UNCHANGED err ELSE Raise(out)
    /\ UNCHANGED << reallySendMail, pc, header, pcinfoFile, names, authorsFile,
                    authorsList, conflictsFile, outVars, loopVars >>

EndConflicts ==
    /\ pc = "read_conflicts" /\ err = "none" /\ csvfile = << >>
    /\ pc' = "shuffle"
    /\ UNCHANGED << reallySendMail, err, header, row, csvfile, loadVars,
                    outVars, loopVars >>

\* Lines 125-126: random.shuffle of every reviewer's list
Shuffle ==
    /\ pc = "shuffle" /\ err = "none"
    /\ \E sh \in [DOMAIN conflicts -> UNION {PermsOfSeq(conflicts[k]) : k \in DOMAIN conflicts}] :
          /\ \A k \in DOMAIN conflicts : sh[k] \in PermsOfSeq(conflicts[k])
          /\ conflicts' = sh
    /\ pc' = "open_authors2"
    /\ UNCHANGED << reallySendMail, err, header, row, csvfile, pcinfoFile, names,
                    allAuthors, authorsFile, authorsList, conflictsFile,
                    conflict_types, outVars, loopVars >>

\* ------------------------------------------------------------------------
\* Lines 131-137: the second pass over confname-authors.csv
OpenAuthorsAgain ==
    /\ pc = "open_authors2" /\ err = "none"
    /\ \/ /\ Raise("OSError")
          /\ UNCHANGED << pc, header, csvfile >>
       \/ /\ header' = authorsFile.fieldnames
          /\ csvfile' = DictReader(authorsFile.fieldnames, authorsFile.rows)
          /\ pc' = "read_authors2"
          /\ UNCHANGED err
    /\ UNCHANGED << reallySendMail, row, loadVars, outVars, loopVars >>

ReadAuthorsRowAgain ==
    /\ pc = "read_authors2" /\ err = "none" /\ csvfile # << >>
    /\ row' = Head(csvfile)
    /\ csvfile' = Tail(csvfile)
    /\ authorsList' = Append(authorsList, Head(csvfile)["email"])
    /\ UNCHANGED << reallySendMail, pc, err, header, pcinfoFile, names,
                    allAuthors, authorsFile, conflictsFile, conflicts,
                    conflict_types, outVars, loopVars >>

EndAuthorsAgain ==
    /\ pc = "read_authors2" /\ err = "none" /\ csvfile = << >>
    /\ pc' = "open_uidmap"
    /\ UNCHANGED << reallySendMail, err, header, row, csvfile, loadVars,
                    outVars, loopVars >>

\* ------------------------------------------------------------------------
\* Lines 139-140: uidmap.csv
OpenUidmap ==
    /\ pc = "open_uidmap" /\ err = "none"
    /\ \/ /\ Raise("OSError")
          /\ UNCHANGED << pc, uidmap >>
       \/ /\ uidmap' = [state |-> "open", lines |-> << UidmapHeader >>]
          /\ pc' = "smtp"
          /\ UNCHANGED err
    /\ UNCHANGED << reallySendMail, header, row, csvfile, loadVars, server,
                    sleeps, sent, printed, loopVars >>

\* line 173: one line of uidmap.csv
UidmapLine(rcpt, paper_id, uid) ==
    rcpt \o << "," >> \o paper_id \o << "," >> \o uid \o << "\n" >>

\* A write that is lost
UidmapWrite_Lost(file, text) == file

\* uidmap.write(text)
UidmapWrite(file, text) == [file EXCEPT !.lines = Append(@, text)]

\* Lines 142-149: the SMTP session, when mail is really sent, and the
\* recipients in sorted order
SmtpSetup ==
    /\ pc = "smtp" /\ err = "none"
    /\ IF reallySendMail
       THEN \/ /\ Raise("SMTPException")
               /\ UNCHANGED << pc, server, s >>
            \/ /\ server' = "loggedin"
               /\ s' = Sorted(DOMAIN conflicts)
               /\ pc' = "loop"
               /\ UNCHANGED err
       ELSE /\ s' = Sorted(DOMAIN conflicts)
            /\ pc' = "loop"
            /\ UNCHANGED << err, server >>
    /\ UNCHANGED << reallySendMail, header, row, csvfile, loadVars, uidmap,
                    sleeps, sent, printed, count, recipient, c, ind, msg, key,
                    salt, reduced_uid >>

\* line 154
LookupKey(rcpt) == Lower(rcpt)

\* Lines 153-157: the name the subject line ends with
Greeting(rcpt) ==
    IF LookupKey(rcpt) \in DOMAIN names THEN names[LookupKey(rcpt)] ELSE rcpt

\* A sleep outside the test of reallySendMail
Sleep_Always(n) == n + 1

\* line 151: the pacing sleep
Sleep(n) == IF reallySendMail THEN n + 1 ELSE n

\* Lines 150-167: the head of the message for the next recipient
BeginMessage ==
    /\ pc = "loop" /\ err = "none" /\ count < Len(s)
    /\ recipient' = s[count + 1]
    /\ sleeps' = Sleep(sleeps)
    /\ msg' = [subject |-> Greeting(s[count + 1]), lines |-> << >>]
    /\ c' = conflicts[s[count + 1]]
    /\ ind' = 1
    /\ pc' = "render"
    /\ UNCHANGED << reallySendMail, err, header, row, csvfile, loadVars, uidmap,
                    server, sent, printed, s, count, key, salt, reduced_uid >>

\* Lines 175-177
DisplayedType(ctype) == IF ctype = PinnedConflict THEN AutoDetected ELSE ctype

\* Lines 168-186: one numbered line.  `paper` is kept with the line to say
\* which conflict it lists; the text of the message does not show it.
RenderConflict ==
    /\ pc = "render" /\ err = "none" /\ ind <= Len(c)
    /\ LET paper_id == c[ind].paper IN
       IF paper_id = None
       THEN \* line 170: str + None
            /\ Raise("TypeError")
            /\ UNCHANGED << uidmap, msg, ind, key, salt, reduced_uid >>
       ELSE \E slt \in Gensalt :
            LET k == recipient \o hashcode \o paper_id
                uid == Hashpw(k, slt)
            IN
            /\ key' = k
            /\ salt' = slt
            /\ reduced_uid' = ReducedUid(uid)
            /\ uidmap' = UidmapWrite(uidmap,
                             UidmapLine(recipient, paper_id, reduced_uid'))
            /\ msg' = [msg EXCEPT !.lines = Append(@,
                          [ind |-> ind, uid |-> reduced_uid',
                           ctype |-> DisplayedType(conflict_types[recipient][paper_id]),
                           authors |-> c[ind].alist, paper |-> paper_id])]
            /\ ind' = ind + 1
            /\ UNCHANGED err
    /\ UNCHANGED << reallySendMail, pc, header, row, csvfile, loadVars, server,
                    sleeps, sent, printed, s, count, recipient, c >>

\* Lines 187-195: hand the message to the server, or print it
SendOrPrint ==
    /\ pc = "render" /\ err = "none" /\ ind > Len(c)
    /\ IF reallySendMail
       THEN \/ /\ Raise("SMTPException")
               /\ UNCHANGED << pc, sent, count >>
            \/ /\ sent' = Append(sent, [to |-> recipient, text |-> msg])
               /\ count' = count + 1
               /\ pc' = "loop"
               /\ UNCHANGED err
            /\ UNCHANGED printed
       ELSE /\ printed' = Append(printed, [to |-> recipient, text |-> msg])
            /\ count' = count + 1
            /\ pc' = "loop"
            /\ UNCHANGED << err, sent >>
    /\ UNCHANGED << reallySendMail, header, row, csvfile, loadVars, uidmap,
                    server, sleeps, s, recipient, c, ind, msg, key, salt,
                    reduced_uid >>

\* Lines 197-200: server.quit() and uidmap.close()
Finish ==
    /\ pc = "loop" /\ err = "none" /\ count = Len(s)
    /\ server' = IF reallySendMail THEN "quit" ELSE server
    /\ uidmap' = [uidmap EXCEPT !.state = "closed"]
    /\ pc' = "done"
    /\ UNCHANGED << reallySendMail, err, header, row, csvfile, loadVars, sleeps,
                    sent, printed, loopVars >>

Next ==
    \/ OpenPcinfo \/ ReadPcinfoRow \/ EndPcinfo
    \/ OpenAuthors \/ ReadAuthorsRow \/ EndAuthors
    \/ OpenConflicts \/ ReadConflictsRow \/ EndConflicts
    \/ Shuffle
    \/ OpenAuthorsAgain \/ ReadAuthorsRowAgain \/ EndAuthorsAgain
    \/ OpenUidmap \/ SmtpSetup
    \/ BeginMessage \/ RenderConflict \/ SendOrPrint
    \/ Finish

Spec == Init /\ [][Next]_vars

\* ------------------------------------------------------------------------
\* What the claims speak of

\* The data rows of uidmap.csv, each parsed back into its three fields
AuditIndices == 2..Len(uidmap.lines)

AuditRow(i) == Split(DropLast(uidmap.lines[i]), ",")

\* The messages handed to sendmail or printed, in order
Delivered == sent \o printed

\* Every message of the run, the one under composition included
Messages ==
    Range(Delivered) \cup
    (IF pc = "render" THEN {[to |-> recipient, text |-> msg]} ELSE {})

HasAuditRow(rcpt, paper_id, uid) ==
    \E i \in AuditIndices : AuditRow(i) = << rcpt, paper_id, uid >>

\* The step that reads the next row of confname-pcconflicts.csv
ReadsConflictsRow == pc = "read_conflicts" /\ err = "none" /\ csvfile # << >>

\* A string with a part after its first "@"
HasDomain(email) == email # None /\ Len(Split(email, "@")) >= 2

\* The rows of the conflicts export, as DictReader yields them
ExportedConflicts == DictReader(conflictsFile.fieldnames, conflictsFile.rows)

\* C1: every numbered line of every message (sent, printed or under
\* composition) has a row (reviewer, paper, token) in uidmap.csv; the row is
\* there when the message is handed to sendmail or printed.
C1_WriteBeforeSend ==
    \A m \in Messages : \A j \in 1..Len(m.text.lines) :
        HasAuditRow(m.to, m.text.lines[j].paper, m.text.lines[j].uid)

C1_Witness ==
    /\ Len(sent) = 1
    /\ Len(sent[1].text.lines) = 2
    /\ Len(uidmap.lines) = 3

\* C2: for every line of every message, uidmap.csv holds exactly one row
\* with the line's (reviewer, paper), whatever the conflicts export holds.
C2_ExactlyOneRow ==
    \A m \in Messages : \A j \in 1..Len(m.text.lines) :
        Cardinality({i \in AuditIndices :
                        /\ AuditRow(i)[1] = m.to
                        /\ AuditRow(i)[2] = m.text.lines[j].paper}) = 1

\* C3: without --really-send there is no SMTP session, no sendmail call and
\* no sleep, and the message of every recipient finished so far has been
\* printed; no run both sends and prints.
C3_DryRunNoNetwork ==
    /\ ~reallySendMail =>
          /\ server = "none"
          /\ sent = << >>
          /\ sleeps = 0
          /\ Len(printed) = count
          /\ \A i \in 1..count : printed[i].to = s[i]
          /\ (pc = "done" =>
                {printed[i].to : i \in 1..Len(printed)} = DOMAIN conflicts)
    /\ (sent = << >> \/ printed = << >>)

C3_Witness ==
    /\ ~reallySendMail
    /\ pc = "done"
    /\ Len(printed) = 2

DroppedTypeStep ==
    /\ (ReadsConflictsRow
          /\ "conflicttype" \in DOMAIN Head(csvfile)
          /\ Head(csvfile)["conflicttype"] \notin KeptTypes)
       => /\ conflicts' = conflicts
          /\ conflict_types' = conflict_types
    /\ \A m \in Messages' : \A j \in 1..Len(m.text.lines) :
          m.text.lines[j].ctype \in (KeptTypes \ {PinnedConflict}) \cup {AutoDetected}

\* C4: reading a conflicts row whose type is not a kept type changes
\* neither conflicts nor conflict_types, whatever the domains of the
\* reviewer and the authors, and no line of any message shows a type other
\* than a kept one (Pinned conflict shown relabelled).
C4_DroppedType == [][DroppedTypeStep]_vars

\* A completed run whose export held a row of a dropped type for a reviewer
\* and paper with an author at the reviewer's domain, and a kept row: the
\* one message has the kept row's line only.
C4_Witness ==
    /\ pc = "done"
    /\ ExportedConflicts =
          << [email |-> RevB, paper |-> Paper2, conflicttype |-> AuthorType],
             [email |-> RevB, paper |-> Paper1, conflicttype |-> PinnedConflict] >>
    /\ authorsFile.rows = << AuUniv, AuGmail >>
    /\ Len(Delivered) = 1
    /\ Len(Delivered[1].text.lines) = 1
    /\ Delivered[1].text.lines[1].paper = Paper1
    /\ Delivered[1].text.lines[1].ctype = AutoDetected
    /\ Len(uidmap.lines) = 2

\* The email domains of the authors the authors export lists for a paper
AuthorEmailDomains(paper_id) ==
    {Split(authorsFile.rows[i]["email"], "@")[2] :
        i \in {n \in 1..Len(authorsFile.rows) :
                  /\ authorsFile.rows[n]["paper"] = paper_id
                  /\ HasDomain(authorsFile.rows[n]["email"])}}

SuppressedStep ==
    (ReadsConflictsRow
       /\ DOMAIN Head(csvfile) = ConflictsColumns
       /\ Head(csvfile)["conflicttype"] \in KeptTypes
       /\ HasDomain(Head(csvfile)["email"])
       /\ Split(Head(csvfile)["email"], "@")[2] \notin WebmailDomains
       /\ Split(Head(csvfile)["email"], "@")[2]
             \in AuthorEmailDomains(Head(csvfile)["paper"]))
    => conflicts' = conflicts

\* C5: a conflicts row of a kept type whose reviewer domain is not a webmail
\* domain and equals the email domain of some author of the paper is not
\* added to conflicts, whoever the other authors of the paper are.
C5_Suppressed == [][SuppressedStep]_vars

\* The rows of the conflicts export the loop of line 105 has read so far
ConflictsRead ==
    IF pc \in {"open_pcinfo", "read_pcinfo", "open_authors", "read_authors",
               "open_conflicts"}
    THEN << >>
    ELSE IF pc = "read_conflicts"
    THEN SubSeq(ExportedConflicts, 1, Len(ExportedConflicts) - Len(csvfile))
    ELSE ExportedConflicts

\* A row with all its columns, a kept type and a webmail reviewer
WebmailRow(r) ==
    /\ DOMAIN r = ConflictsColumns
    /\ r["conflicttype"] \in KeptTypes
    /\ HasDomain(r["email"])
    /\ Split(r["email"], "@")[2] \in WebmailDomains

\* C6: a conflicts row of a kept type whose reviewer domain is outlook.com,
\* yahoo.com or gmail.com does not end the run and is in the reviewer's
\* group once read, whatever the authors' domains: the group holds the
\* row's paper as often as such rows were read.  In a run that completes,
\* every entry of such a reviewer's group has its line and its uidmap.csv
\* row.
C6_WebmailKept ==
    /\ LET rd == ConflictsRead
           web == {i \in 1..Len(rd) : WebmailRow(rd[i])}
       IN  \A i \in web :
              /\ (i = Len(rd) /\ pc = "read_conflicts") => err = "none"
              /\ rd[i]["email"] \in DOMAIN conflicts
              /\ Cardinality({k \in 1..Len(conflicts[rd[i]["email"]]) :
                                 conflicts[rd[i]["email"]][k].paper = rd[i]["paper"]})
                   >= Cardinality({j \in web :
                                      /\ rd[j]["email"] = rd[i]["email"]
                                      /\ rd[j]["paper"] = rd[i]["paper"]})
    /\ (pc = "done" =>
          \A e \in DOMAIN conflicts :
             (HasDomain(e) /\ Split(e, "@")[2] \in WebmailDomains) =>
                \A i \in 1..Len(conflicts[e]) :
                   \E m \in Range(Delivered) :
                      /\ m.to = e
                      /\ Len(m.text.lines) = Len(conflicts[e])
                      /\ m.text.lines[i].paper = conflicts[e][i].paper
                      /\ m.text.lines[i].authors = conflicts[e][i].alist
                      /\ HasAuditRow(e, m.text.lines[i].paper, m.text.lines[i].uid))

\* A completed run with a gmail.com reviewer in conflict on a paper whose
\* only author is at gmail.com
C6_Witness ==
    /\ pc = "done"
    /\ ExportedConflicts =
          << [email |-> RevB, paper |-> Paper2, conflicttype |-> Personal] >>
    /\ authorsFile.rows = << AuUniv, AuGmail >>
    /\ conflicts[RevB] = << [paper |-> Paper2, alist |-> << AuthorValue(AuGmail) >>] >>
    /\ Len(Delivered) = 1
    /\ Delivered[1].to = RevB
    /\ Delivered[1].text.lines[1].authors = << AuthorValue(AuGmail) >>

\* C7: messages are delivered in strictly ascending order of reviewer email
\* (so at most one per reviewer), only to reviewers with at least one
\* surviving conflict and, once the run is done, to every one of them; the
\* rows of uidmap.csv follow the same order of reviewers.
C7_AscendingOrder ==
    /\ \A i, j \in 1..Len(Delivered) :
          i < j => StrLess(Delivered[i].to, Delivered[j].to)
    /\ \A m \in Messages :
          /\ m.to \in DOMAIN conflicts
          /\ Len(conflicts[m.to]) >= 1
          /\ \E i \in 1..Len(ExportedConflicts) :
                /\ "email" \in DOMAIN ExportedConflicts[i]
                /\ ExportedConflicts[i]["email"] = m.to
    /\ (pc = "done" =>
          {Delivered[i].to : i \in 1..Len(Delivered)} = DOMAIN conflicts)
    /\ \A i, j \in AuditIndices :
          i < j => ~StrLess(AuditRow(j)[1], AuditRow(i)[1])

\* A completed run with two reviewers, the later row of the export being
\* the reviewer that sorts first
C7_Witness ==
    /\ pc = "done"
    /\ Len(ExportedConflicts) = 2
    /\ ExportedConflicts[1]["email"] = RevA
    /\ ExportedConflicts[2]["email"] = RevB
    /\ Len(Delivered) = 2
    /\ Delivered[1].to = RevB
    /\ Delivered[2].to = RevA
    /\ Len(uidmap.lines) = 3

\* The rows of the reviewer-info export whose email is that of a recipient,
\* compared exactly and compared after lowercasing both
ExactPcRows(rcpt) ==
    {i \in 1..Len(pcinfoFile.rows) : pcinfoFile.rows[i]["email"] = rcpt}

LowerPcRows(rcpt) ==
    {i \in 1..Len(pcinfoFile.rows) :
        /\ pcinfoFile.rows[i]["email"] # None
        /\ Lower(pcinfoFile.rows[i]["email"]) = Lower(rcpt)}

\* C8 as stated: when the reviewer-info export lists the recipient's email
\* only in another case, the join misses and the subject shows the raw email
\* of the conflicts export.
C8_CaseMismatchMisses ==
    \A m \in Messages :
        (ExactPcRows(m.to) = {} /\ LowerPcRows(m.to) # {}) => m.text.subject = m.to

\* C8 as amended: the join key is lowercased on both sides.  The subject
\* shows "first last" of the last reviewer-info row whose lowercased email
\* equals the lowercased recipient, and the raw email when there is none.
C8_CaseInsensitiveJoin ==
    \A m \in Messages :
        IF LowerPcRows(m.to) = {}
        THEN m.text.subject = m.to
        ELSE LET i == CHOOSE n \in LowerPcRows(m.to) :
                          \A k \in LowerPcRows(m.to) : k <= n
             IN  m.text.subject = NamesValue(pcinfoFile.rows[i])

\* Two messages: one whose recipient the reviewer-info export lists in
\* another case only, one whose recipient it does not list
C8_Witness ==
    /\ pcinfoFile.rows = << PcA >>
    /\ Len(Delivered) = 2
    /\ Delivered[2].to = RevA
    /\ ExactPcRows(RevA) = {}
    /\ Delivered[2].text.subject = NamesValue(PcA)
    /\ Delivered[1].to = RevB
    /\ Delivered[1].text.subject = RevB

\* A row without a value for a column, or read under a header without it
LacksColumn(r, cols) ==
    \/ ~(cols \subseteq DOMAIN r)
    \/ \E x \in DOMAIN r : r[x] = None

NoOutputYet ==
    /\ uidmap.state = "unopened"
    /\ server = "none"
    /\ msg = NoMsg
    /\ sent = << >>
    /\ printed = << >>

AbortStep ==
    /\ (/\ err = "none"
        /\ csvfile # << >>
        /\ \/ pc = "read_pcinfo" /\ LacksColumn(Head(csvfile), PcinfoColumns)
           \/ pc = "read_authors" /\ LacksColumn(Head(csvfile), AuthorsColumns)
           \/ pc = "read_conflicts" /\
                 (LacksColumn(Head(csvfile), ConflictsColumns)
                    \/ ~HasDomain(Head(csvfile)["email"])))
       => (err' # "none" /\ NoOutputYet')
    /\ (err' = "OSError" /\
           pc \in {"open_pcinfo", "open_authors", "open_conflicts", "open_authors2"})
       => NoOutputYet'

\* C9: a step that fails to open an input file, or that reads a row lacking
\* a required column (or a conflicts row whose email has no domain), ends
\* the run, and nothing has been output then.
C9_AbortBeforeOutput == [][AbortStep]_vars

\* The keys another reviewer, paper or secret gives
OtherKeys ==
    {r \o h \o p : r \in {RevA, RevB}, h \in {hashcode, OtherHashcode},
                   p \in {Paper1, Paper2}} \ {key}

\* C10: the token depends on the key: under the salt just drawn, some other
\* key (another reviewer, paper or secret) gives another token.
C10_TokenDependsOnKey ==
    salt # None =>
        \E k \in OtherKeys : ReducedUid(Hashpw(k, salt)) # reduced_uid

====
